---- MODULE Spec2Model ----
(***************************************************************************)
(* netdisco.discovery.NetworkDiscovery: the discovery coordinator, its     *)
(* plugin registry (self.discoverables) and its use of the background      *)
(* (MDNS) and foreground (SSDP) scanner adapters.                          *)
(*                                                                         *)
(* Identifiers (package names, registry keys, limit elements) are Python   *)
(* strings; a dotted string is modelled as the sequence of its components, *)
(* "netdisco.discoverables.1" as <<"netdisco", "discoverables", "1">>.     *)
(***************************************************************************)
EXTENDS FiniteSets, Integers, Sequences, TLC

\* Number of discoverable type plugins that can be installed.
MaxTypes == 2
\* Number of scan() calls that return normally in one behaviour.
MaxCalls == 3

VARIABLES
    pc,               \* "new": before __init__, "ready": constructed, "failed": __init__ raised
    limit_discovery,  \* self.limit_discovery: [none |-> TRUE] or [none |-> FALSE, elems |-> set]
    discoverables,    \* self.discoverables, as its items() sequence of <<key, checker>>
    is_discovering,   \* self.is_discovering
    mdns_running,     \* self.mdns: the background task is running
    mdns_entries,     \* self.mdns.entries
    ssdp_entries,     \* self.ssdp.entries
    ssdp_scans,       \* calls of self.ssdp.scan() that returned normally
    scan_returns,     \* calls of scan() that returned normally
    mdns_net,         \* mdns.start() calls that returned minus mdns.stop() calls that returned
    race,             \* concurrent callers of scan(): where each is, and the start() calls
    last              \* the last call made on the coordinator, what it did and its outcome

vars == <<pc, limit_discovery, discoverables, is_discovering, mdns_running,
          mdns_entries, ssdp_entries, ssdp_scans, scan_returns, mdns_net, race, last>>

----------------------------------------------------------------------------
\* Identifiers

TypeNames == {ToString(i) : i \in 1..MaxTypes}

\* The registry key of type t: a string without dots.
Key(t) == <<t>>

\* The module of plugin t.
PluginPkg(t) == <<"netdisco", "discoverables", t>>

NAMESPACE == <<"netdisco", "discoverables">>

\* What a caller may pass as a limit element: a type name or a module name.
Identifiers == {Key(t) : t \in TypeNames} \cup {PluginPkg(t) : t \in TypeNames}

\* What a caller may pass as a query name.
QueryNames == {Key(t) : t \in TypeNames} \cup {<<"nonexistent">>}

NoLimit == [none |-> TRUE, elems |-> {}]

Limit(s) == [none |-> FALSE, elems |-> s]

\* The limit_discovery arguments: None, an empty collection or one identifier.
LimitChoices == {NoLimit, Limit({})} \cup {Limit({x}) : x \in Identifiers}

\* The plugin modules whose import or construction raises: at most one.
BrokenChoices == {{}} \cup {{PluginPkg(t)} : t \in TypeNames}

\* pkgutil.walk_packages: the dotted names found, in sorted order, relative to
\* the directory that holds the netdisco package.
walk_packages ==
    <<<<"netdisco">>, <<"netdisco", "discoverables">>>>
    \o [i \in 1..MaxTypes |-> PluginPkg(ToString(i))]
    \o <<<<"netdisco", "discovery">>, <<"netdisco", "mdns">>, <<"netdisco", "ssdp">>,
         <<"netdisco", "tests", "1">>>>

\* str.rsplit('.', 1)
rsplit1(pkg) ==
    IF Len(pkg) > 1
    THEN <<SubSeq(pkg, 1, Len(pkg) - 1), <<pkg[Len(pkg)]>>>>
    ELSE <<pkg>>

\* str.endswith
endswith(s, suffix) ==
    /\ Len(s) >= Len(suffix)
    /\ SubSeq(s, Len(s) - Len(suffix) + 1, Len(s)) = suffix

----------------------------------------------------------------------------
\* The registry: a dict from key to checker. A checker is identified by the
\* module that built it.

EmptyDict == [k \in {} |-> <<>>]

DictPut(d, k, v) == [x \in DOMAIN d \cup {k} |-> IF x = k THEN v ELSE d[x]]

\* The orders in which dict d may be iterated, each as an items() sequence.
ItemOrders(d) ==
    LET n == Cardinality(DOMAIN d)
        perms == {s \in [1..n -> DOMAIN d] : \A i, j \in 1..n : i # j => s[i] # s[j]}
    IN  {[i \in 1..n |-> <<s[i], d[s[i]]>>] : s \in perms}

Keys(items) == {items[i][1] : i \in DOMAIN items}

KeySeq(items) == [i \in DOMAIN items |-> items[i][1]]

HasKey(items, k) == k \in Keys(items)

Checker(items, k) == (CHOOSE i \in DOMAIN items : items[i][1] = k)

CheckerOf(items, k) == items[Checker(items, k)][2]

\* line 88: the candidate lives under the discoverables namespace
in_namespace(parts) == endswith(parts[1], NAMESPACE)

\* lines 91-92: the limit filter lets the candidate through
limit_allows(limit, pkg) == limit.none \/ pkg \in limit.elems

\* line 97: the key under which the checker is stored
registry_key(parts) == parts[2]

\* The loop of _load_device_support over walk[i..], starting with dict d.
\* broken: the modules whose import or Discoverable(self) raises.
RECURSIVE load_loop(_, _, _, _, _)
load_loop(walk, i, d, limit, broken) ==
    IF i > Len(walk) THEN [dict |-> d, raised |-> FALSE]
    ELSE LET pkg == walk[i]
             parts == rsplit1(pkg)
         IN  IF ~in_namespace(parts) THEN load_loop(walk, i + 1, d, limit, broken)
             ELSE IF ~limit_allows(limit, pkg) THEN load_loop(walk, i + 1, d, limit, broken)
             ELSE IF pkg \in broken THEN [dict |-> d, raised |-> TRUE]
             ELSE load_loop(walk, i + 1, DictPut(d, registry_key(parts), pkg), limit, broken)

load_device_support(limit, broken) ==
    load_loop(walk_packages, 1, EmptyDict, limit, broken)

----------------------------------------------------------------------------
\* Outcomes of a call

NoExc == "none"

\* What a call returned: nothing (None, or it raised), or the value v.
Nothing == <<>>

Returned(v) == <<v>>

\* A call: the operation, its argument, the exception it raised, the value it
\* returned, self.is_discovering when it was made (was), and how often it
\* invoked mdns.start(), mdns.stop() and ssdp.scan().
Call(op, arg, exc, ret, was, started, stopped, scanned) ==
    [op |-> op, arg |-> arg, exc |-> exc, ret |-> ret, was |-> was,
     started |-> started, stopped |-> stopped, scanned |-> scanned]

\* A scan() call has one more field: responses, the records the network gave to
\* the round trip of a call that returned ({} for a call that raised).

\* A call that invokes no adapter.
Plain(op, arg, exc, ret, was) == Call(op, arg, exc, ret, was, 0, 0, 0)

\* Number of callers that may be inside scan() at the same time.
MaxCallers == 2

Callers == 1..MaxCallers

\* No caller is inside scan(), and mdns.start() has not been invoked.
\* at[t] is the line of scan() caller t is about to execute, saw[t] the value of
\* self.is_discovering it read at line 41, starts the calls of mdns.start().
NoRace == [at |-> [t \in Callers |-> "out"], saw |-> [t \in Callers |-> FALSE],
           starts |-> 0]

----------------------------------------------------------------------------
Init ==
    /\ pc = "new"
    /\ limit_discovery \in LimitChoices
    /\ discoverables = <<>>
    /\ is_discovering = FALSE
    /\ mdns_running = FALSE
    /\ mdns_entries = {}
    /\ ssdp_entries = {}
    /\ ssdp_scans = 0
    /\ scan_returns = 0
    /\ mdns_net = 0
    /\ race = NoRace
    /\ last = Plain("none", <<>>, NoExc, Nothing, FALSE)

\* NetworkDiscovery(limit_discovery): __init__
new ==
    /\ pc = "new"
    /\ \E broken \in BrokenChoices :
         LET r == load_device_support(limit_discovery, broken)
         IN  /\ discoverables' \in ItemOrders(r.dict)
             /\ pc' = IF r.raised THEN "failed" ELSE "ready"
             /\ last' = Plain("__init__", <<>>,
                              IF r.raised THEN "PluginLoadFailure" ELSE NoExc, Nothing, FALSE)
    /\ is_discovering' = FALSE
    /\ UNCHANGED <<limit_discovery, mdns_running, mdns_entries, ssdp_entries,
                   ssdp_scans, scan_returns, mdns_net, race>>

\* An explicit reload: _load_device_support() called on a constructed coordinator
reload ==
    /\ pc = "ready"
    /\ \E broken \in BrokenChoices :
         LET r == load_device_support(limit_discovery, broken)
         IN  /\ discoverables' \in ItemOrders(r.dict)
             /\ last' = Plain("_load_device_support", <<>>,
                              IF r.raised THEN "PluginLoadFailure" ELSE NoExc, Nothing,
                              is_discovering)
    /\ UNCHANGED <<pc, limit_discovery, is_discovering, mdns_running, mdns_entries,
                   ssdp_entries, ssdp_scans, scan_returns, mdns_net, race>>

----------------------------------------------------------------------------
\* The scanner adapters (netdisco.mdns.MDNS, netdisco.ssdp.SSDP)

\* MDNS.start(): starts the background task; idempotent. A call that raises
\* may or may not have started it.
mdns_start(running, raises) == IF raises THEN {running, TRUE} ELSE {TRUE}

\* MDNS.stop(): ends the background task; idempotent. A call that raises may
\* or may not have ended it.
mdns_stop(running, raises) == IF raises THEN {running, FALSE} ELSE {FALSE}

\* SSDP.scan() that reports only the records it has not reported before
ssdp_scan_fresh(entries, raises, responses) ==
    IF raises THEN entries ELSE responses \ entries

\* SSDP.scan(): one synchronous round trip; replaces the entry store with the
\* responses, or raises and leaves the prior entries intact.
ssdp_scan(entries, raises, responses) == IF raises THEN entries ELSE responses

\* The background task records an announcement of type t.
mdns_receive ==
    /\ pc = "ready"
    /\ mdns_running
    /\ \E t \in TypeNames \ mdns_entries : mdns_entries' = mdns_entries \cup {t}
    /\ UNCHANGED <<pc, limit_discovery, discoverables, is_discovering, mdns_running,
                   ssdp_entries, ssdp_scans, scan_returns, mdns_net, race, last>>

\* The type a checker classifies: the type its module is named after.
checker_type(checker) == checker[Len(checker)]

\* Discoverable.get_entries(): the raw records of the checker's type.
checker_get_entries(checker, mdns, ssdp) ==
    (IF checker_type(checker) \in mdns THEN <<<<"mdns", checker_type(checker)>>>> ELSE <<>>)
    \o (IF checker_type(checker) \in ssdp THEN <<<<"ssdp", checker_type(checker)>>>> ELSE <<>>)

\* Discoverable.get_info(): one summary per raw record.
checker_get_info(checker, mdns, ssdp) ==
    LET raw == checker_get_entries(checker, mdns, ssdp)
    IN  [i \in DOMAIN raw |-> raw[i][1]]

\* Discoverable.is_discovered()
checker_is_discovered(checker, mdns, ssdp) ==
    checker_get_entries(checker, mdns, ssdp) # <<>>

----------------------------------------------------------------------------
\* Lifecycle

\* self.is_discovering assigned before the adapter call instead of after it
on_background_failure_assigned(disc) == ~disc

\* lines 42-43, 52-54: self.is_discovering after mdns.start() or mdns.stop()
\* raised: the exception leaves the method before the assignment
on_background_failure(disc) == disc

\* scan() that starts the background adapter on every call
scan_plan_restart(disc) == [start |-> TRUE, discovering |-> TRUE, foreground |-> TRUE]

\* scan() that triggers the foreground scan only when it starts the background
scan_plan_nested(disc) == [start |-> ~disc, discovering |-> TRUE, foreground |-> ~disc]

\* scan() that does not set self.is_discovering
scan_plan_unflagged(disc) == [start |-> ~disc, discovering |-> disc, foreground |-> TRUE]

\* lines 41-45: what scan() does, given self.is_discovering
scan_plan(disc) == [start |-> ~disc, discovering |-> TRUE, foreground |-> TRUE]

scan ==
    /\ pc = "ready"
    /\ scan_returns < MaxCalls
    /\ \E start_raises \in BOOLEAN, scan_raises \in BOOLEAN,
          responses \in {{}} \cup {{t} : t \in TypeNames} :
         LET plan == scan_plan(is_discovering)
             start_failed == plan.start /\ start_raises
             fg == plan.foreground /\ ~start_failed
             fg_failed == fg /\ scan_raises
             returned == ~start_failed /\ ~fg_failed
         IN  /\ mdns_running' \in (IF plan.start THEN mdns_start(mdns_running, start_raises)
                                                 ELSE {mdns_running})
             /\ is_discovering' = (IF start_failed THEN on_background_failure(is_discovering)
                                   ELSE IF plan.start THEN plan.discovering
                                   ELSE is_discovering)
             /\ ssdp_entries' = (IF fg THEN ssdp_scan(ssdp_entries, scan_raises, responses)
                                       ELSE ssdp_entries)
             /\ ssdp_scans' = ssdp_scans + (IF fg /\ ~fg_failed THEN 1 ELSE 0)
             /\ scan_returns' = scan_returns + (IF returned THEN 1 ELSE 0)
             /\ mdns_net' = mdns_net + (IF plan.start /\ ~start_failed THEN 1 ELSE 0)
             /\ last' = Call("scan", <<>>,
                             IF start_failed THEN "BackgroundFailure"
                             ELSE IF fg_failed THEN "ScanTransportFailure" ELSE NoExc,
                             Nothing, is_discovering,
                             IF plan.start THEN 1 ELSE 0, 0, IF fg THEN 1 ELSE 0)
                        @@ [responses |-> IF returned THEN responses ELSE {}]
    /\ UNCHANGED <<pc, limit_discovery, discoverables, mdns_entries, race>>

\* stop() that does not clear self.is_discovering
stop_plan_unflagged(disc) == [stop |-> disc, discovering |-> disc]

\* stop() without the early return
stop_plan_unguarded(disc) == [stop |-> TRUE, discovering |-> FALSE]

\* lines 49-54: what stop() does, given self.is_discovering
stop_plan(disc) == [stop |-> disc, discovering |-> FALSE]

stop ==
    /\ pc = "ready"
    /\ \E stop_raises \in BOOLEAN :
         LET plan == stop_plan(is_discovering)
             stop_failed == plan.stop /\ stop_raises
         IN  /\ mdns_running' \in (IF plan.stop THEN mdns_stop(mdns_running, stop_raises)
                                                ELSE {mdns_running})
             /\ is_discovering' = (IF stop_failed THEN on_background_failure(is_discovering)
                                   ELSE IF plan.stop THEN plan.discovering
                                   ELSE is_discovering)
             /\ mdns_net' = mdns_net - (IF plan.stop /\ ~stop_failed THEN 1 ELSE 0)
             /\ last' = Call("stop", <<>>,
                             IF stop_failed THEN "BackgroundFailure" ELSE NoExc,
                             Nothing, is_discovering, 0, IF plan.stop THEN 1 ELSE 0, 0)
    /\ UNCHANGED <<pc, limit_discovery, discoverables, mdns_entries, ssdp_entries,
                   ssdp_scans, scan_returns, race>>

----------------------------------------------------------------------------
\* scan() called from several threads. scan() takes no lock, so the statements
\* of lines 41-45 of one call interleave with those of another. The adapters'
\* calls return.

\* A caller enters scan().
race_call ==
    /\ pc = "ready"
    /\ \E t \in Callers :
         /\ race.at[t] = "out"
         /\ scan_returns + Cardinality({u \in Callers : race.at[u] # "out"}) < MaxCalls
         /\ race' = [race EXCEPT !.at[t] = "l41"]
    /\ UNCHANGED <<pc, limit_discovery, discoverables, is_discovering, mdns_running,
                   mdns_entries, ssdp_entries, ssdp_scans, scan_returns, mdns_net, last>>

\* line 41: if not self.is_discovering
race_check ==
    /\ \E t \in Callers :
         /\ race.at[t] = "l41"
         /\ race' = [race EXCEPT !.saw[t] = is_discovering,
                                 !.at[t] = IF scan_plan(is_discovering).start
                                           THEN "l42" ELSE "l45"]
    /\ UNCHANGED <<pc, limit_discovery, discoverables, is_discovering, mdns_running,
                   mdns_entries, ssdp_entries, ssdp_scans, scan_returns, mdns_net, last>>

\* line 42: self.mdns.start()
race_start ==
    /\ \E t \in Callers :
         /\ race.at[t] = "l42"
         /\ race' = [race EXCEPT !.starts = @ + 1, !.at[t] = "l43"]
    /\ mdns_running' \in mdns_start(mdns_running, FALSE)
    /\ mdns_net' = mdns_net + 1
    /\ UNCHANGED <<pc, limit_discovery, discoverables, is_discovering, mdns_entries,
                   ssdp_entries, ssdp_scans, scan_returns, last>>

\* line 43: self.is_discovering = True
race_set ==
    /\ \E t \in Callers :
         /\ race.at[t] = "l43"
         /\ is_discovering' = scan_plan(race.saw[t]).discovering
         /\ race' = [race EXCEPT !.at[t] = "l45"]
    /\ UNCHANGED <<pc, limit_discovery, discoverables, mdns_running, mdns_entries,
                   ssdp_entries, ssdp_scans, scan_returns, mdns_net, last>>

\* line 45: self.ssdp.scan(), and the return of scan()
race_fg ==
    /\ \E t \in Callers, responses \in {{}} \cup {{x} : x \in TypeNames} :
         /\ race.at[t] = "l45"
         /\ ssdp_entries' = ssdp_scan(ssdp_entries, FALSE, responses)
         /\ last' = Call("scan", <<>>, NoExc, Nothing, race.saw[t],
                         IF scan_plan(race.saw[t]).start THEN 1 ELSE 0, 0, 1)
                    @@ [responses |-> responses]
         /\ race' = [race EXCEPT !.at[t] = "out"]
    /\ ssdp_scans' = ssdp_scans + 1
    /\ scan_returns' = scan_returns + 1
    /\ UNCHANGED <<pc, limit_discovery, discoverables, is_discovering, mdns_running,
                   mdns_entries, mdns_net>>

----------------------------------------------------------------------------
\* Queries

\* _check_enabled that never raises
check_enabled_off(disc) == NoExc

\* lines 76-79: the exception _check_enabled raises
check_enabled(disc) == IF ~disc THEN "RuntimeError" ELSE NoExc

\* discover() without the is_discovered() filter
discover_list_unfiltered(items, mdns, ssdp) == KeySeq(items)

\* lines 60-61: the list comprehension over self.discoverables.items()
discover_list(items, mdns, ssdp) ==
    KeySeq(SelectSeq(items, LAMBDA it : checker_is_discovered(it[2], mdns, ssdp)))

\* lines 68, 74: the exception self.discoverables[dis] raises
lookup(items, dis) == IF HasKey(items, dis) THEN NoExc ELSE "KeyError"

\* get_info / get_entries that call _check_enabled first
query_guard_enabled(disc, items, dis) ==
    IF check_enabled(disc) # NoExc THEN check_enabled(disc) ELSE lookup(items, dis)

\* lines 63-74: the exception get_info / get_entries raise, given self.is_discovering
query_guard(disc, items, dis) == lookup(items, dis)

\* A query that empties the registry
QueryFrame_clearing ==
    /\ discoverables' = <<>>
    /\ UNCHANGED <<pc, limit_discovery, is_discovering, mdns_running, mdns_entries,
                   ssdp_entries, ssdp_scans, scan_returns, mdns_net, race>>

\* A query that enables discovery instead of raising
QueryFrame_enabling ==
    /\ is_discovering' = TRUE
    /\ UNCHANGED <<pc, limit_discovery, discoverables, mdns_running, mdns_entries,
                   ssdp_entries, ssdp_scans, scan_returns, mdns_net, race>>

\* lines 56-74: the queries assign nothing
QueryFrame ==
    UNCHANGED <<pc, limit_discovery, discoverables, is_discovering, mdns_running,
                mdns_entries, ssdp_entries, ssdp_scans, scan_returns, mdns_net, race>>

discover ==
    /\ pc = "ready"
    /\ LET exc == check_enabled(is_discovering)
       IN  last' = Plain("discover", <<>>, exc,
                         IF exc = NoExc
                         THEN Returned(discover_list(discoverables, mdns_entries,
                                                     ssdp_entries))
                         ELSE Nothing,
                         is_discovering)
    /\ QueryFrame

get_info ==
    /\ pc = "ready"
    /\ \E dis \in QueryNames :
         LET exc == query_guard(is_discovering, discoverables, dis)
         IN  last' = Plain("get_info", dis, exc,
                           IF exc = NoExc
                           THEN Returned(checker_get_info(CheckerOf(discoverables, dis),
                                                          mdns_entries, ssdp_entries))
                           ELSE Nothing,
                           is_discovering)
    /\ QueryFrame

get_entries ==
    /\ pc = "ready"
    /\ \E dis \in QueryNames :
         LET exc == query_guard(is_discovering, discoverables, dis)
         IN  last' = Plain("get_entries", dis, exc,
                           IF exc = NoExc
                           THEN Returned(checker_get_entries(CheckerOf(discoverables, dis),
                                                             mdns_entries, ssdp_entries))
                           ELSE Nothing,
                           is_discovering)
    /\ QueryFrame

----------------------------------------------------------------------------
\* Properties

Idle == pc = "ready" /\ ~is_discovering

Scanning == pc = "ready" /\ is_discovering

\* C1: discover() called on an Idle coordinator raises RuntimeError (InvalidState)
\* and returns nothing; discover() called on a Scanning coordinator does not
\* raise RuntimeError.
C1_DiscoverNeedsScanning ==
    last.op = "discover" =>
        /\ is_discovering = last.was
        /\ ~last.was => last.exc = "RuntimeError" /\ last.ret = Nothing
        /\ last.was => last.exc # "RuntimeError"

\* discover() has failed on a coordinator that scanned and was stopped again.
C1_Witness ==
    /\ last.op = "discover"
    /\ last.exc = "RuntimeError"
    /\ Idle
    /\ scan_returns >= 1

\* C2: a scan() call invokes the background start() once if the coordinator was
\* Idle and not at all if it was Scanning, and unless that start() raised the
\* coordinator is Scanning after the call: over consecutive scan() calls from
\* Idle, start() is invoked by the first call only.
C2_StartOnlyFromIdle ==
    last.op = "scan" =>
        /\ last.started = (IF last.was THEN 0 ELSE 1)
        /\ last.exc # "BackgroundFailure" => is_discovering

\* A scan() call made while Scanning, after an earlier scan() that returned.
C2_Witness ==
    /\ last.op = "scan"
    /\ last.was
    /\ last.started = 0
    /\ scan_returns >= 2

\* C3: a scan() call that returns normally has invoked the foreground scan()
\* exactly once, from Idle and from Scanning alike; after N scan() calls that
\* returned normally, N foreground scans have completed.
C3_ForegroundEveryCall ==
    /\ last.op = "scan" /\ last.exc = NoExc => last.scanned = 1
    /\ ssdp_scans = scan_returns

\* A second scan() has returned normally on a Scanning coordinator.
C3_Witness ==
    /\ last.op = "scan"
    /\ last.exc = NoExc
    /\ last.was
    /\ scan_returns = 2
    /\ ssdp_scans = 2

\* C4: stop() on a Scanning coordinator invokes the background stop() exactly
\* once and, when that returns, leaves the coordinator Idle; stop() on an Idle
\* coordinator raises nothing, does not invoke the background stop() and leaves
\* the coordinator Idle.
C4_StopOnceThenNoOp ==
    last.op = "stop" =>
        /\ last.was => last.stopped = 1 /\ (last.exc = NoExc => ~is_discovering)
        /\ ~last.was => last.stopped = 0 /\ last.exc = NoExc /\ ~is_discovering

\* stop() was called on an Idle coordinator that has scanned before.
C4_Witness ==
    /\ last.op = "stop"
    /\ ~last.was
    /\ last.stopped = 0
    /\ scan_returns >= 1

\* C5: get_info(name) and get_entries(name) with a name that is not a registry
\* key raise KeyError (UnknownType) whether the coordinator is Idle or Scanning,
\* and the failed call changes neither the coordinator state nor the registry.
C5_UnknownType ==
    [][(get_info \/ get_entries) /\ ~HasKey(discoverables, last'.arg) =>
         /\ last'.exc = "KeyError"
         /\ last'.ret = Nothing
         /\ is_discovering' = is_discovering
         /\ discoverables' = discoverables]_vars

\* get_entries("nonexistent") has failed on an Idle coordinator with a registry.
C5_Witness ==
    /\ last.op = "get_entries"
    /\ last.arg = <<"nonexistent">>
    /\ last.exc = "KeyError"
    /\ Idle
    /\ discoverables # <<>>

\* C6 as stated: every query operation called on an Idle coordinator raises
\* RuntimeError (InvalidState): discover(), and get_info(name) and
\* get_entries(name) for a registered name, which do not return a result.
C6_AllQueriesNeedScanning ==
    /\ last.op \in {"discover", "get_info", "get_entries"}
    /\ ~last.was
    /\ last.op # "discover" => HasKey(discoverables, last.arg)
    => last.exc = "RuntimeError" /\ last.ret = Nothing

\* C6 amended: only discover() is guarded by the coordinator state. get_info(name)
\* and get_entries(name) never raise RuntimeError: in either state they return
\* the checker's result for a registered name and raise KeyError for any other.
C6_OnlyDiscoverGuarded ==
    [][/\ discover /\ ~is_discovering => last'.exc = "RuntimeError"
       /\ get_info \/ get_entries =>
            /\ last'.exc # "RuntimeError"
            /\ HasKey(discoverables, last'.arg) =>
                 /\ last'.exc = NoExc
                 /\ last'.ret = Returned(
                        IF last'.op = "get_info"
                        THEN checker_get_info(CheckerOf(discoverables, last'.arg),
                                              mdns_entries, ssdp_entries)
                        ELSE checker_get_entries(CheckerOf(discoverables, last'.arg),
                                                 mdns_entries, ssdp_entries))
            /\ ~HasKey(discoverables, last'.arg) => last'.exc = "KeyError"]_vars

\* get_info of a registered name has returned a non-empty result on an Idle coordinator.
C6_Witness ==
    /\ last.op = "get_info"
    /\ ~last.was
    /\ Idle
    /\ HasKey(discoverables, last.arg)
    /\ last.exc = NoExc
    /\ last.ret # Returned(<<>>)

\* The last call loaded the registry and did not raise.
Loaded ==
    /\ pc = "ready"
    /\ last.op \in {"__init__", "_load_device_support"}
    /\ last.exc = NoExc

\* C7 as stated: after a load with a limit set the registry keys are exactly the
\* available type names that are members of the limit set; after a load without
\* one they are all the available type names.
C7_LimitByTypeName ==
    Loaded =>
        Keys(discoverables) =
            IF limit_discovery.none
            THEN {Key(t) : t \in TypeNames}
            ELSE {Key(t) : t \in TypeNames} \cap limit_discovery.elems

\* C8: discover() on a Scanning coordinator returns the registry keys whose
\* checker reports is_discovered() at the call: each such key once, no other
\* key, in the order in which the registry iterates.
C8_DiscoverFilter ==
    [][discover /\ is_discovering =>
         /\ last'.exc = NoExc
         /\ last'.ret # Nothing
         /\ LET found == last'.ret[1]
            IN  /\ \A i \in DOMAIN found : HasKey(discoverables, found[i])
                /\ \A k \in Keys(discoverables) :
                     Cardinality({i \in DOMAIN found : found[i] = k})
                     = IF checker_is_discovered(CheckerOf(discoverables, k),
                                                mdns_entries, ssdp_entries)
                       THEN 1 ELSE 0
                /\ \A i, j \in DOMAIN found :
                     i < j => Checker(discoverables, found[i])
                              < Checker(discoverables, found[j])
      ]_vars

\* discover() has returned one of two registered types, the other not being discovered.
C8_Witness ==
    /\ last.op = "discover"
    /\ last.exc = NoExc
    /\ Len(discoverables) >= 2
    /\ \E k \in Keys(discoverables) : last.ret = Returned(<<k>>)

\* C9 as stated: after a scan() call that failed in the foreground scan, the
\* coordinator state is the state before the call.
C9_FailedScanKeepsState ==
    last.op = "scan" /\ last.exc = "ScanTransportFailure" => is_discovering = last.was

\* C9 amended: a failure of the foreground scan propagates to the scan() caller
\* and leaves the coordinator Scanning: the state is unchanged if it was
\* Scanning, and an Idle coordinator has started the background adapter and
\* become Scanning before the foreground scan failed.
C9_FailedScanLeavesScanning ==
    last.op = "scan" /\ last.scanned = 1 /\ last.exc # NoExc =>
        /\ last.exc = "ScanTransportFailure"
        /\ is_discovering
        /\ last.started = (IF last.was THEN 0 ELSE 1)

\* scan() on an Idle coordinator has failed in the foreground scan.
C9_Witness ==
    /\ last.op = "scan"
    /\ last.exc = "ScanTransportFailure"
    /\ ~last.was
    /\ Scanning

\* C10: a scan() call on a Scanning coordinator that fails in the foreground scan
\* invokes neither start() nor stop() of the background adapter, leaves it
\* running if it was, leaves the coordinator Scanning, and a discover() made
\* next does not raise RuntimeError.
C10_BackgroundUnaffected ==
    [][scan /\ is_discovering /\ last'.exc = "ScanTransportFailure" =>
         /\ last'.started = 0
         /\ last'.stopped = 0
         /\ mdns_running' = mdns_running
         /\ mdns_entries' = mdns_entries
         /\ is_discovering'
         /\ check_enabled(is_discovering') = NoExc]_vars

\* scan() on a Scanning coordinator has failed in the foreground scan with the
\* background task running.
C10_Witness ==
    /\ last.op = "scan"
    /\ last.exc = "ScanTransportFailure"
    /\ last.was
    /\ mdns_running
    /\ Scanning

\* The keys of the registry a load builds when no plugin fails.
FullKeys == DOMAIN load_device_support(limit_discovery, {}).dict

\* C11: when a plugin fails during a registry load the load fails as a whole and
\* the coordinator is not left holding the registry of the plugins loaded before
\* the failing one: it holds a complete registry.
C11_NoPartialRegistry ==
    pc = "ready" /\ last.op = "_load_device_support" /\ last.exc = "PluginLoadFailure"
    => Keys(discoverables) = FullKeys

\* C13: the registry is complete when construction finishes, the coordinator
\* then being Idle, and no scan, stop, discover, get_info or get_entries call
\* (nor the background task) adds, removes or replaces a registry entry.
C13_RegistryFixedAtRuntime ==
    [][/\ new /\ pc' = "ready" => ~is_discovering' /\ Keys(discoverables') = FullKeys
       /\ scan \/ stop \/ discover \/ get_info \/ get_entries \/ mdns_receive =>
            discoverables' = discoverables]_vars

\* A query has returned on a Scanning coordinator whose registry holds two types.
C13_Witness ==
    /\ Scanning
    /\ Len(discoverables) >= 2
    /\ Keys(discoverables) = FullKeys
    /\ last.op = "get_entries"
    /\ last.exc = NoExc

\* C14: discover(), get_info() and get_entries(), whether they return or raise,
\* leave the coordinator state and the adapters as they were and invoke neither
\* mdns.start(), mdns.stop() nor ssdp.scan(); self.is_discovering changes only
\* in scan() and stop().
C14_QueriesReadOnly ==
    [][/\ discover \/ get_info \/ get_entries =>
            /\ is_discovering' = is_discovering
            /\ mdns_running' = mdns_running
            /\ ssdp_scans' = ssdp_scans
            /\ mdns_entries' = mdns_entries /\ ssdp_entries' = ssdp_entries
            /\ last'.started = 0 /\ last'.stopped = 0 /\ last'.scanned = 0
       /\ is_discovering' # is_discovering => scan \/ stop]_vars

\* discover() has raised on an Idle coordinator whose background task is stopped.
C14_Witness ==
    /\ last.op = "discover"
    /\ last.exc = "RuntimeError"
    /\ Idle
    /\ ~mdns_running
    /\ scan_returns >= 1

\* C19: a scan() call whose mdns.start() raised was made on an Idle coordinator,
\* leaves it Idle and has not invoked ssdp.scan(); a stop() call whose
\* mdns.stop() raised was made on a Scanning coordinator and leaves it Scanning.
C19_BackgroundFailureKeepsState ==
    last.exc = "BackgroundFailure" =>
        /\ is_discovering = last.was
        /\ last.op = "scan" => ~last.was /\ last.started = 1 /\ last.scanned = 0
        /\ last.op = "stop" => last.was /\ last.stopped = 1
        /\ last.op \in {"scan", "stop"}

\* mdns.stop() has raised in stop() on a Scanning coordinator.
C19_Witness ==
    /\ last.op = "stop"
    /\ last.exc = "BackgroundFailure"
    /\ Scanning

\* C12: the coordinator has no terminal state: an Idle coordinator can scan()
\* into Scanning (as long as the model lets it scan at all), a Scanning one can
\* stop() into Idle; a scan() made while Idle, after a stop() as at first, starts
\* the background adapter and leaves the coordinator Scanning; and the start()
\* and stop() calls that returned alternate, beginning with start(): their
\* difference is 1 while Scanning and 0 while Idle.
C12_CyclesAndAlternates ==
    pc = "ready" =>
        /\ mdns_net = (IF is_discovering THEN 1 ELSE 0)
        /\ ~is_discovering /\ scan_returns < MaxCalls => ENABLED (scan /\ is_discovering')
        /\ is_discovering => ENABLED (stop /\ ~is_discovering')
        /\ last.op = "scan" /\ ~last.was /\ last.exc # "BackgroundFailure" =>
             last.started = 1 /\ is_discovering

\* A coordinator that scanned and was stopped has been started again by scan().
C12_Witness ==
    /\ last.op = "scan"
    /\ ~last.was
    /\ last.started = 1
    /\ Scanning
    /\ scan_returns >= 2
    /\ mdns_net = 1

\* C18: when no adapter call has failed, the background task is running exactly
\* when the coordinator is Scanning.
C18_RunningIffScanning ==
    pc = "ready" => (mdns_running <=> is_discovering)

\* The background task runs again after scan(), stop(), scan().
C18_Witness ==
    /\ last.op = "scan"
    /\ ~last.was
    /\ Scanning
    /\ mdns_running
    /\ scan_returns >= 2

\* What discover() returns on a Scanning coordinator.
DiscoverResult == discover_list(discoverables, mdns_entries, ssdp_entries)

\* C15: when scan() returns after the foreground adapter yielded the same
\* records as in the scan() call before it, discover() returns after the call
\* what it returned before it: repeating the foreground scan accumulates nothing.
C15_RepeatedScanSameResult ==
    [][/\ scan
       /\ last.op = "scan" /\ last.exc = NoExc
       /\ last'.exc = NoExc
       /\ last'.responses = last.responses
       => DiscoverResult' = DiscoverResult]_vars

\* Two scan() calls in a row have returned with the same non-empty records, which
\* discover() reports.
C15_Witness ==
    /\ last.op = "scan"
    /\ last.exc = NoExc
    /\ last.was
    /\ scan_returns >= 2
    /\ last.responses # {}
    /\ ssdp_scans = scan_returns
    /\ DiscoverResult # <<>>

\* C16: when scan() has returned normally the foreground scan has run and the
\* foreground store holds the records of that scan, so that a query made now
\* reads them: discover() lists, and get_entries() returns the record of, every
\* registered type among them.
C16_ForegroundVisibleAfterScan ==
    last.op = "scan" /\ last.exc = NoExc =>
        /\ last.scanned = 1
        /\ ssdp_entries = last.responses
        /\ \A i \in DOMAIN discoverables :
             checker_type(discoverables[i][2]) \in last.responses =>
                 /\ \E j \in DOMAIN DiscoverResult : DiscoverResult[j] = discoverables[i][1]
                 /\ LET raw == checker_get_entries(discoverables[i][2],
                                                   mdns_entries, ssdp_entries)
                    IN  \E j \in DOMAIN raw :
                          raw[j] = <<"ssdp", checker_type(discoverables[i][2])>>

\* scan() has returned on a Scanning coordinator with a record of a registered
\* type that the background store does not hold.
C16_Witness ==
    /\ last.op = "scan"
    /\ last.exc = NoExc
    /\ last.was
    /\ \E i \in DOMAIN discoverables :
         /\ checker_type(discoverables[i][2]) \in last.responses
         /\ checker_type(discoverables[i][2]) \notin mdns_entries

\* C17: when scan() is called by concurrent callers on an Idle coordinator,
\* mdns.start() is invoked exactly once before the next stop(): never more than
\* once, and once when the coordinator is Scanning.
C17_StartExactlyOnce ==
    pc = "ready" =>
        /\ race.starts <= 1
        /\ is_discovering => race.starts = 1

----------------------------------------------------------------------------
Next ==
    \/ new
    \/ reload
    \/ scan
    \/ stop
    \/ mdns_receive
    \/ discover
    \/ get_info
    \/ get_entries

Spec == Init /\ [][Next]_vars

\* The step's call raised no adapter failure.
NoFault == last'.exc \notin {"BackgroundFailure", "ScanTransportFailure"}

\* The coordinator with adapters whose calls all return.
NextReliable ==
    \/ new
    \/ reload
    \/ scan /\ NoFault
    \/ stop /\ NoFault
    \/ mdns_receive
    \/ discover
    \/ get_info
    \/ get_entries

SpecReliable == Init /\ [][NextReliable]_vars

\* The coordinator from its construction to the next stop(), with scan() called
\* from concurrent threads.
NextRace ==
    \/ new
    \/ race_call
    \/ race_check
    \/ race_start
    \/ race_set
    \/ race_fg
    \/ mdns_receive

SpecRace == Init /\ [][NextRace]_vars
====
